---- MODULE Spec2Model ----
(***************************************************************************)
(* A model of adbmcp.py, the ADB bridge server of dracxi/adbmcpserver.     *)
(*                                                                         *)
(* Python strings are modelled as sequences of text chunks.  A chunk is a  *)
(* TLA+ string holding a piece of literal text (one character, one tag,    *)
(* one line); the text a sequence stands for is the concatenation of its   *)
(* chunks.  Every string operation of the source (strip, startswith, the   *)
(* "in" test, re.search, re.findall, int, ET.fromstring, findall, join) is *)
(* an operator over such sequences.                                        *)
(***************************************************************************)
EXTENDS Integers, Sequences, FiniteSets, TLC

(***************************************************************************)
(* Bounds of the model.                                                    *)
(***************************************************************************)
\* Longest element body (tags between the document's head and tail) drawn.
MaxBody == 4
\* Longest bounds attribute drawn, in bracket groups.
MaxGroups == 3
\* Longest element list handed to the report loop.
MaxElems == 2
\* Longest dump body a device answers with in the server specification.
MaxSrvBody == 1
\* Most lines pm list packages answers with.
MaxPmLines == 2

(***************************************************************************)
(* Generic helpers on sequences.                                           *)
(***************************************************************************)
SeqsUpTo(S, n) == UNION {[1..k -> S] : k \in 0..n}

RECURSIVE Concat(_)
Concat(ss) == IF ss = <<>> THEN <<>> ELSE Head(ss) \o Concat(Tail(ss))

\* sep.join(parts), parts a sequence of strings
RECURSIVE Join(_, _)
Join(sep, parts) ==
    IF parts = <<>> THEN <<>>
    ELSE IF Len(parts) = 1 THEN parts[1]
    ELSE parts[1] \o sep \o Join(sep, Tail(parts))

Min(S) == CHOOSE x \in S : \A y \in S : x <= y

\* least index in lo..Len(s) whose chunk is in the set P, or 0: str.find
FirstFrom(s, lo, P) ==
    LET I == {i \in lo..Len(s) : s[i] \in P}
    IN  IF I = {} THEN 0 ELSE Min(I)

\* s.split(sep) for a separator that is one chunk
RECURSIVE SplitOn(_, _)
SplitOn(s, sep) ==
    LET i == FirstFrom(s, 1, {sep})
    IN  IF i = 0 THEN <<s>>
        ELSE <<SubSeq(s, 1, i - 1)>> \o SplitOn(SubSeq(s, i + 1, Len(s)), sep)

(***************************************************************************)
(* The state.  One server process handles one request at a time (op, the   *)
(* device it was scoped to, the external invocations it made, the string   *)
(* it returned); get_uilayout's extraction pipeline and _parse_hierarchy's *)
(* centre computation are also followed on their own; two server processes *)
(* attached to the same device share the device's files.                   *)
(***************************************************************************)
VARIABLES
    op,            \* the tool last handled, "none" after construction
    serial,        \* its device_serial argument
    calls,         \* the run_adb invocations it made, in order
    ret,           \* the string it returned
    pc,            \* position in get_uilayout's lines 101-121
    raw,           \* the text retrieval handed to line 102
    xml_data,      \* get_uilayout's xml_data
    parsed,        \* what _parse_hierarchy returned or raised
    report,        \* what get_uilayout returns
    bounds_groups, \* the bracket groups the bounds attribute is made of
    center,        \* the centre computed for it
    center_done,   \* whether lines 39-48 have run on it
    rpc,           \* position of each of two concurrent invocations
    files,         \* the device's remote files: path -> who wrote it
    issued,        \* the invocations each concurrent process issued
    fetched        \* what each process's pull or cat transferred

srv_vars == <<op, serial, calls, ret>>
ext_vars == <<pc, raw, xml_data, parsed, report>>
ctr_vars == <<bounds_groups, center, center_done>>
race_vars == <<rpc, files, issued, fetched>>
vars == <<srv_vars, ext_vars, ctr_vars, race_vars>>

(***************************************************************************)
(* Characters, integers and their decimal text.                            *)
(***************************************************************************)
Digits == {"0", "1", "2", "3", "4", "5", "6", "7", "8", "9"}

DigitChar == <<"0", "1", "2", "3", "4", "5", "6", "7", "8", "9">>

DigitVal(c) == CHOOSE v \in 0..9 : DigitChar[v + 1] = c

\* str(n) for n >= 0: the decimal digits, most significant first
RECURSIVE Dec(_)
Dec(n) == IF n < 10 THEN <<DigitChar[n + 1]>>
          ELSE Dec(n \div 10) \o <<DigitChar[(n % 10) + 1]>>

\* int(digs) for a run of decimal digits
RECURSIVE IntOf(_)
IntOf(digs) ==
    IF Len(digs) = 1 THEN DigitVal(digs[1])
    ELSE 10 * IntOf(SubSeq(digs, 1, Len(digs) - 1)) + DigitVal(digs[Len(digs)])

(***************************************************************************)
(* re.findall(r"\[(\d+),(\d+)\]", bounds_str), character by character.     *)
(***************************************************************************)
\* the index after the longest run of digits that starts at i (i when none)
RECURSIVE DigitsEnd(_, _)
DigitsEnd(s, i) ==
    IF i <= Len(s) /\ s[i] \in Digits THEN DigitsEnd(s, i + 1) ELSE i

\* the pattern matched at index i: <<end, group 1, group 2>>, or <<>>
BoundsMatchAt(s, i) ==
    LET e1 == DigitsEnd(s, i + 1)
        e2 == DigitsEnd(s, e1 + 1)
    IN  IF /\ i <= Len(s) /\ s[i] = "["
           /\ e1 > i + 1 /\ e1 <= Len(s) /\ s[e1] = ","
           /\ e2 > e1 + 1 /\ e2 <= Len(s) /\ s[e2] = "]"
        THEN <<e2 + 1, SubSeq(s, i + 1, e1 - 1), SubSeq(s, e1 + 1, e2 - 1)>>
        ELSE <<>>

\* the non-overlapping matches from index i on, leftmost first
RECURSIVE BoundsFindAllFrom(_, _)
BoundsFindAllFrom(s, i) ==
    IF i > Len(s) THEN <<>>
    ELSE LET m == BoundsMatchAt(s, i)
         IN  IF m = <<>> THEN BoundsFindAllFrom(s, i + 1)
             ELSE <<<<m[2], m[3]>>>> \o BoundsFindAllFrom(s, m[1])

BoundsFindAll(s) == BoundsFindAllFrom(s, 1)

\* Python's None, and the absent centre
None == <<>>

\* lines 44-46: the midpoint of two corners given as pairs of digit runs
Midpoint(m1, m2) ==
    << (IntOf(m1[1]) + IntOf(m2[1])) \div 2, (IntOf(m1[2]) + IntOf(m2[2])) \div 2 >>

\* lines 40-48 with "at least two matches" for "exactly two"
CenterOfAtLeastTwo(bounds_str) ==
    LET matches == BoundsFindAll(bounds_str)
    IN  IF Len(matches) >= 2 THEN Midpoint(matches[1], matches[2]) ELSE None

\* lines 40-48: the centre of a bounds string.  int() of a run of digits
\* cannot fail, so the except branch of line 47 is never taken.
CenterOf(bounds_str) ==
    LET matches == BoundsFindAll(bounds_str)
    IN  IF Len(matches) = 2 THEN Midpoint(matches[1], matches[2]) ELSE None

(***************************************************************************)
(* The bounds attributes drawn: sequences of bracket groups.               *)
(***************************************************************************)
CoordXs == {0, 7, 12}
CoordYs == {3, 10}

IntPair(x, y) == <<"[">> \o Dec(x) \o <<",">> \o Dec(y) \o <<"]">>

IntPairGroups == {IntPair(x, y) : x \in CoordXs, y \in CoordYs}

NegPairGroup == <<"[", "-", "7", ",", "3", "]">>
AlphaPairGroup == <<"[", "a", ",", "3", "]">>
FloatPairGroup == <<"[", "7", ".", "5", ",", "3", "]">>
SingleGroup == <<"[", "7", "]">>
OpenBracket == <<"[">>
Blank == <<" ">>

\* bracket pairs whose content is not two integers
NonIntGroups == {AlphaPairGroup, FloatPairGroup}

\* every bracket pair [a,b]
BracketPairGroups == IntPairGroups \cup {NegPairGroup} \cup NonIntGroups

BoundsGroups == BracketPairGroups \cup {SingleGroup, OpenBracket, Blank}

BoundsInputs == SeqsUpTo(BoundsGroups, MaxGroups)

(***************************************************************************)
(* The chunks XML text is made of.  Each tag chunk holds exactly one '>',  *)
(* its last character; no other chunk holds '<' or '>' except PiClose.     *)
(***************************************************************************)
Space == " "
Newline == "\n"
Junk == "garbage"
Marker == "UI hierchary dumped to: /dev/tty"
MarkerFile == "UI hierchary dumped to: /sdcard/view.xml"
XmlOpen == "<?xml version='1.0'"
PiClose == "?>"
HOpen == "<hierarchy rotation='0'>"
HClose == "</hierarchy>"
NClose == "</node>"
NodeOpenTag == <<"<node #1>", "<node #2>", "<node #3>">>
NodeSelfTag == <<"<node #1/>", "<node #2/>", "<node #3/>">>

AttrIds == DOMAIN NodeOpenTag
NodeOpenTags == {NodeOpenTag[k] : k \in AttrIds}
NodeSelfTags == {NodeSelfTag[k] : k \in AttrIds}
NodeTags == NodeOpenTags \cup NodeSelfTags

SpaceChunks == {Space, Newline}
OpenTags == NodeOpenTags \cup {HOpen}
CloseTags == {NClose, HClose}
\* the chunks that hold the character '>'
GtChunks == OpenTags \cup NodeSelfTags \cup CloseTags \cup {PiClose}
\* the chunks that hold the text "UI hierchary dumped to:"
MarkerChunks == {Marker, MarkerFile}

\* the attributes each node tag #k is written with; an attribute that is
\* not written is absent from the record's domain
AttrTable ==
    << [text |-> <<" ", "O", "K", " ">>, content_desc |-> <<>>,
        resource_id |-> <<>>, class |-> <<"Button">>, package |-> <<"com.a">>,
        clickable |-> <<"true">>,
        bounds |-> IntPair(10, 20) \o IntPair(30, 40)],
       [text |-> <<" ">>, resource_id |-> <<>>, class |-> <<"View", " ">>,
        clickable |-> <<"true">>, bounds |-> IntPair(0, 3)],
       [content_desc |-> <<" ", "d">>, resource_id |-> <<"id">>,
        clickable |-> <<"false">>,
        bounds |-> AlphaPairGroup \o IntPair(0, 3) \o IntPair(7, 10)] >>

TagName(c) == IF c \in NodeTags \cup {NClose} THEN "node" ELSE "hierarchy"

AttrsOf(c) ==
    IF c \in NodeTags
    THEN AttrTable[CHOOSE k \in AttrIds : c \in {NodeOpenTag[k], NodeSelfTag[k]}]
    ELSE [rotation |-> <<"0">>]

(***************************************************************************)
(* str.strip, str.startswith, the "in" test.                               *)
(***************************************************************************)
RECURSIVE LStrip(_)
LStrip(s) == IF s # <<>> /\ Head(s) \in SpaceChunks THEN LStrip(Tail(s)) ELSE s

RECURSIVE RStrip(_)
RStrip(s) ==
    IF s # <<>> /\ s[Len(s)] \in SpaceChunks
    THEN RStrip(SubSeq(s, 1, Len(s) - 1)) ELSE s

Strip(s) == RStrip(LStrip(s))

\* s.startswith(p) for a prefix p that is one chunk
StartsWith(s, p) == s # <<>> /\ s[1] = p

\* whether some chunk of s is in the set P
Contains(s, P) == \E i \in 1..Len(s) : s[i] \in P

(***************************************************************************)
(* ET.fromstring: the XML parser on chunk sequences.  The element tree is  *)
(* the sequence of its elements in the order their start tags were read,   *)
(* each with its tag name, its attributes and the index of its parent (0   *)
(* for the root).                                                          *)
(***************************************************************************)
ParseError == [ok |-> FALSE, elems |-> <<>>]

\* s from index i on; stack: indices of the open elements, innermost last;
\* rootDone: the document element has been closed
RECURSIVE XmlScan(_, _, _, _, _)
XmlScan(s, i, stack, elems, rootDone) ==
    IF i > Len(s)
    THEN IF rootDone /\ stack = <<>> THEN [ok |-> TRUE, elems |-> elems]
         ELSE ParseError
    ELSE LET c == s[i]
             parent == IF stack = <<>> THEN 0 ELSE stack[Len(stack)]
             elem == [tag |-> TagName(c), attrib |-> AttrsOf(c), parent |-> parent]
         IN  IF c \in SpaceChunks
             THEN XmlScan(s, i + 1, stack, elems, rootDone)
             ELSE IF c \in OpenTags
             THEN IF rootDone THEN ParseError
                  ELSE XmlScan(s, i + 1, Append(stack, Len(elems) + 1),
                               Append(elems, elem), FALSE)
             ELSE IF c \in NodeSelfTags
             THEN IF rootDone THEN ParseError
                  ELSE XmlScan(s, i + 1, stack, Append(elems, elem),
                               stack = <<>>)
             ELSE IF c \in CloseTags
             THEN IF stack = <<>> \/ elems[parent].tag # TagName(c)
                  THEN ParseError
                  ELSE XmlScan(s, i + 1, SubSeq(stack, 1, Len(stack) - 1),
                               elems, Len(stack) = 1)
             ELSE IF c = XmlOpen
             THEN ParseError    \* a declaration that is not at the start
             ELSE IF stack = <<>>
             THEN ParseError    \* character data outside the root
             ELSE XmlScan(s, i + 1, stack, elems, rootDone)

\* an XML declaration is read only at the very start of the text and must
\* be closed by "?>" with nothing but blanks in between
fromstring(s) ==
    IF StartsWith(s, XmlOpen)
    THEN LET rest == LStrip(Tail(s))
         IN  IF StartsWith(rest, PiClose)
             THEN XmlScan(Tail(rest), 1, <<>>, <<>>, FALSE)
             ELSE ParseError
    ELSE XmlScan(s, 1, <<>>, <<>>, FALSE)

(***************************************************************************)
(* root.findall(".//node"): every descendant of the root named node, in    *)
(* document order.                                                         *)
(***************************************************************************)
\* the children of element i (0: the root), in order, from index lo on
RECURSIVE ChildrenFrom(_, _, _)
ChildrenFrom(elems, i, lo) ==
    IF lo > Len(elems) THEN <<>>
    ELSE (IF elems[lo].parent = i THEN <<lo>> ELSE <<>>)
         \o ChildrenFrom(elems, i, lo + 1)

Children(elems, i) == ChildrenFrom(elems, i, 1)

\* Element.iter(): the element, then each child's subtree in turn
RECURSIVE Iter(_, _)
RECURSIVE IterEach(_, _)
Iter(elems, i) == <<i>> \o IterEach(elems, Children(elems, i))
IterEach(elems, is) ==
    IF is = <<>> THEN <<>>
    ELSE Iter(elems, Head(is)) \o IterEach(elems, Tail(is))

\* root.findall("node"): the children of the root only
FindAllChildNodes(elems) ==
    LET IsNode(j) == elems[j].tag = "node"
    IN  SelectSeq(Children(elems, 1), IsNode)

\* root.findall(".//node")
FindAllNodes(elems) ==
    LET IsNode(j) == elems[j].tag = "node"
    IN  SelectSeq(Tail(Iter(elems, 1)), IsNode)

(***************************************************************************)
(* _parse_hierarchy (lines 30-60).                                         *)
(***************************************************************************)
\* node.get(name, default)
Get(attrib, name, default) ==
    IF name \in DOMAIN attrib THEN attrib[name] ELSE default

\* lines 39-59: the record of one node
ElementOf(attrib) ==
    [text |-> Strip(Get(attrib, "text", <<>>)),
     content_desc |-> Strip(Get(attrib, "content_desc", <<>>)),
     resource_id |-> Strip(Get(attrib, "resource_id", <<>>)),
     class |-> Strip(Get(attrib, "class", <<>>)),
     package |-> Strip(Get(attrib, "package", <<>>)),
     clickable |-> (Get(attrib, "clickable", None) = <<"true">>),
     bounds |-> Get(attrib, "bounds", <<>>),
     center |-> CenterOf(Get(attrib, "bounds", <<>>))]

\* what a call returns: the list, or an exception raised to the caller
Returned(elements) == [raised |-> FALSE, elements |-> elements]
Raised == [raised |-> TRUE, elements |-> <<>>]

\* lines 37-60 on a parsed tree
ElementsOfChildrenOnly(elems) ==
    LET nodes == FindAllChildNodes(elems)
    IN  [k \in 1..Len(nodes) |-> ElementOf(elems[nodes[k]].attrib)]

ElementsOf(elems) ==
    LET nodes == FindAllNodes(elems)
    IN  [k \in 1..Len(nodes) |-> ElementOf(elems[nodes[k]].attrib)]

\* lines 32-35 without the except clause
ParseHierarchyUncaught(xml) ==
    LET root == fromstring(xml)
    IN  IF ~root.ok THEN Raised ELSE Returned(ElementsOf(root.elems))

ParseHierarchy(xml) ==
    LET root == fromstring(xml)
    IN  IF ~root.ok THEN Returned(<<>>) ELSE Returned(ElementsOf(root.elems))

(***************************************************************************)
(* get_uilayout, lines 101-121.                                            *)
(***************************************************************************)
\* re.search(r"<\?xml.*?>.*?</hierarchy>", s, re.DOTALL): <<first, last>>
\* index of the match, or <<>>.  The match starts at the first "<?xml";
\* the lazy ".*?>" stops at the first '>' after it and the lazy
\* ".*?</hierarchy>" at the first closing tag that starts after that '>'.
LastFrom(s, lo, P) ==
    LET I == {i \in lo..Len(s) : s[i] \in P}
    IN  IF I = {} THEN 0 ELSE CHOOSE i \in I : \A k \in I : k <= i

XmlSearchGreedy(s) ==
    LET i == FirstFrom(s, 1, {XmlOpen})
        q == IF i = 0 THEN 0 ELSE FirstFrom(s, i + 1, GtChunks)
        r == IF q = 0 THEN 0 ELSE LastFrom(s, q + 1, {HClose})
    IN  IF r = 0 THEN <<>> ELSE <<i, r>>

XmlSearch(s) ==
    LET i == FirstFrom(s, 1, {XmlOpen})
        q == IF i = 0 THEN 0 ELSE FirstFrom(s, i + 1, GtChunks)
        r == IF q = 0 THEN 0 ELSE FirstFrom(s, q + 1, {HClose})
    IN  IF r = 0 THEN <<>> ELSE <<i, r>>

\* lines 102-104
CleanXml(s) ==
    LET match == XmlSearch(s)
    IN  IF match # <<>> THEN SubSeq(s, match[1], match[2]) ELSE s

Sentinel == <<"No meaningful elements found.">>

\* str(bool), str(tuple)
BoolText(b) == IF b THEN <<"True">> ELSE <<"False">>
PairText(c) == <<"(">> \o Dec(c[1]) \o <<", ">> \o Dec(c[2]) \o <<")">>

\* line 110
MeaningfulOrClickable(el) ==
    el.text # <<>> \/ el.content_desc # <<>> \/ el.resource_id # <<>>
    \/ el.clickable

Meaningful(el) ==
    el.text # <<>> \/ el.content_desc # <<>> \/ el.resource_id # <<>>

\* lines 111-117: the block of one element
Block(el) ==
    Join(<<"\n">>,
         <<<<"Element (Clickable: ">> \o BoolText(el.clickable) \o <<"):">>>>
         \o (IF el.text # <<>>
             THEN <<<<"  Text: '">> \o el.text \o <<"'">>>> ELSE <<>>)
         \o (IF el.content_desc # <<>>
             THEN <<<<"  Description: '">> \o el.content_desc \o <<"'">>>>
             ELSE <<>>)
         \o (IF el.resource_id # <<>>
             THEN <<<<"  Resource ID: '">> \o el.resource_id \o <<"'">>>>
             ELSE <<>>)
         \o <<<<"  Bounds: ">> \o el.bounds>>
         \o (IF el.center # None
             THEN <<<<"  Center: ">> \o PairText(el.center)>> ELSE <<>>))

\* lines 108-121
ReportOf(elements) ==
    LET result == [k \in 1..Len(SelectSeq(elements, Meaningful)) |->
                       Block(SelectSeq(elements, Meaningful)[k])]
    IN  IF result = <<>> THEN Sentinel ELSE Join(<<"\n\n">>, result)

(***************************************************************************)
(* run_adb (lines 15-28).  What subprocess.run does is the environment's   *)
(* choice: the command exits with status zero (kind "ok", text its         *)
(* standard output), exits non-zero so that check=True raises              *)
(* CalledProcessError (kind "fail", text its standard error), or cannot be *)
(* run at all and another exception is raised (kind "exc", text str(e)).   *)
(***************************************************************************)
\* Python's None where a string may stand; no string of the model is it
NoneStr == <<"None">>

\* truth value of an Optional[str]
Truthy(v) == v # NoneStr /\ v # <<>>

\* a list of literal arguments, each a string of one chunk
Lits(words) == [k \in DOMAIN words |-> <<words[k]>>]

\* lines 17-20
Command(args, device_serial) ==
    <<<<"adb">>>>
    \o (IF Truthy(device_serial) THEN <<<<"-s">>, device_serial>> ELSE <<>>)
    \o args

ErrorPrefix == "Error: "
UnexpectedPrefix == "Unexpected Error: "

\* lines 22-28 without the catch-all clause of line 27
RunAdbNoCatchAll(args, device_serial, outcome) ==
    [args |-> args,
     cmd |-> Command(args, device_serial),
     kind |-> outcome.kind,
     text |-> outcome.text,
     raised |-> outcome.kind = "exc",
     out |-> IF outcome.kind = "ok" THEN outcome.text
             ELSE IF outcome.kind = "fail" THEN <<ErrorPrefix>> \o outcome.text
             ELSE <<>>]

\* one invocation: what was run, what happened, what run_adb returned
RunAdb(args, device_serial, outcome) ==
    [args |-> args,
     cmd |-> Command(args, device_serial),
     kind |-> outcome.kind,
     text |-> outcome.text,
     raised |-> FALSE,
     out |-> IF outcome.kind = "ok" THEN outcome.text
             ELSE IF outcome.kind = "fail" THEN <<ErrorPrefix>> \o outcome.text
             ELSE <<UnexpectedPrefix>> \o outcome.text]

\* what a handler hands back when an exception leaves it
Exception == <<"(exception)">>

(***************************************************************************)
(* What the environment can answer.                                        *)
(***************************************************************************)
Serials == {NoneStr, <<>>, <<"emulator-5554">>}

ErrTexts == {<<"device offline">>}

Outcomes(stdouts) ==
    [kind : {"ok"}, text : stdouts] \cup [kind : {"fail", "exc"}, text : ErrTexts]

PlainOutcomes == Outcomes({<<>>})

\* the dumps a device answers with
SrvHeads ==
    { <<XmlOpen, PiClose, HOpen>>,
      <<Newline, XmlOpen, PiClose, HOpen>>,
      <<Junk, Newline, XmlOpen, PiClose, HOpen>>,
      <<HOpen>> }

SrvTails == { <<HClose>>, <<HClose, Marker>> }

SrvTexts ==
    {h \o b \o t : h \in SrvHeads,
                   b \in SeqsUpTo({NodeSelfTag[1], NodeSelfTag[2]}, MaxSrvBody),
                   t \in SrvTails}
    \cup {<<>>, <<Junk, Newline>>, <<Junk, Marker>>}

\* pm list packages: one line per package, and the odd warning
PmLines == { <<"package:", "com.a">>, <<"package:", "com.b", Space>>,
             <<"WARNING: linker">> }

PmTexts ==
    {Concat([k \in 1..Len(ls) |-> ls[k] \o <<Newline>>]) :
        ls \in SeqsUpTo(PmLines, MaxPmLines)}

(***************************************************************************)
(* The tools (lines 62-155).  Each handler runs to completion before the   *)
(* next request is taken, so each is one step from the waiting server.     *)
(***************************************************************************)
\* what the handler hands back: an exception of run_adb leaves the handler
Result(cs, value) ==
    IF \E k \in 1..Len(cs) : cs[k].raised THEN Exception ELSE value

\* str.replace(old, "") for an old that is one chunk
Remove(s, old) == LET Keep(c) == c # old IN SelectSeq(s, Keep)

\* line 67
PackagesOf(output) ==
    LET lines == SplitOn(output, Newline)
        IsPackage(line) == StartsWith(line, "package:")
        kept == SelectSeq(lines, IsPackage)
    IN  [k \in 1..Len(kept) |-> Strip(Remove(kept[k], "package:"))]

\* output.startswith("Error") (line 66): the chunks that start with it
StartsWithError(output) == StartsWith(output, ErrorPrefix)

get_packages ==
    \E device_serial \in Serials, o \in Outcomes(PmTexts) :
        LET c == RunAdb(Lits(<<"shell", "pm", "list", "packages">>), device_serial, o)
        IN  /\ op = "none"
            /\ op' = "get_packages"
            /\ serial' = device_serial
            /\ calls' = <<c>>
            /\ ret' = Result(<<c>>, IF StartsWithError(c.out) THEN c.out
                                    ELSE Join(<<Newline>>, PackagesOf(c.out)))
            /\ UNCHANGED <<ext_vars, ctr_vars, race_vars>>

\* the commands a caller may pass, as words and blanks
ShellCommands ==
    { <<"adb", Space, "shell", Space, "ls", Space, "-l">>,
      <<"adb", Space, "shell">>,
      <<"adb", Space, "devices">>,
      <<"ls", Space, Space, "-l">> }

\* s.startswith(prefix), s[len(prefix):]
HasPrefix(s, prefix) ==
    Len(s) >= Len(prefix) /\ SubSeq(s, 1, Len(prefix)) = prefix
DropPrefix(s, prefix) == SubSeq(s, Len(prefix) + 1, Len(s))

\* str.split(): the words between the blanks
Words(s) == LET IsWord(c) == c \notin SpaceChunks IN SelectSeq(s, IsWord)

\* lines 73-80
ShellArgs(command) ==
    LET inner_cmd ==
            IF HasPrefix(command, <<"adb", Space, "shell", Space>>)
            THEN DropPrefix(command, <<"adb", Space, "shell", Space>>)
            ELSE IF HasPrefix(command, <<"adb", Space>>)
            THEN DropPrefix(command, <<"adb", Space>>)
            ELSE command
    IN  Lits(<<"shell">> \o Words(inner_cmd))

execute_adb_shell_command ==
    \E command \in ShellCommands, device_serial \in Serials,
       o \in Outcomes({<<>>, <<"total 0", Newline>>}) :
        LET c == RunAdb(ShellArgs(command), device_serial, o)
        IN  /\ op = "none"
            /\ op' = "execute_adb_shell_command"
            /\ serial' = device_serial
            /\ calls' = <<c>>
            /\ ret' = Result(<<c>>, c.out)
            /\ UNCHANGED <<ext_vars, ctr_vars, race_vars>>

\* line 87
ScreenshotPath == <<"/sdcard/mcp_screenshot.png">>
\* lines 98-99
ViewXmlPath == <<"/sdcard/view.xml">>

\* os.path.abspath of a relative name
AbsPath(filename) == <<"/cwd/">> \o filename

take_screenshot ==
    \E filename \in {<<"screenshot.png">>, <<"a.png">>}, device_serial \in Serials,
       o1 \in PlainOutcomes, o2 \in Outcomes({<<"1 file pulled">>}) :
        LET remote_path == ScreenshotPath
            c1 == RunAdb(Lits(<<"shell", "screencap", "-p">>) \o <<remote_path>>,
                         device_serial, o1)
            c2 == RunAdb(Lits(<<"pull">>) \o <<remote_path, filename>>,
                         device_serial, o2)
            cs == IF c1.raised THEN <<c1>> ELSE <<c1, c2>>
        IN  /\ op = "none"
            /\ op' = "take_screenshot"
            /\ serial' = device_serial
            /\ calls' = cs
            /\ ret' = Result(cs, <<"Screenshot saved to: ">> \o AbsPath(filename))
            /\ UNCHANGED <<ext_vars, ctr_vars, race_vars>>

\* line 97 with "or" for "and"
NeedsFallbackEither(text) ==
    ~Contains(text, MarkerChunks) \/ ~StartsWith(Strip(text), XmlOpen)

\* line 97
NeedsFallback(text) ==
    ~Contains(text, MarkerChunks) /\ ~StartsWith(Strip(text), XmlOpen)

\* lines 101-121 on the retrieved text
LayoutReport(text) ==
    LET p == ParseHierarchy(CleanXml(text))
    IN  IF p.raised THEN Exception ELSE ReportOf(p.elements)

TtyDumpArgs == Lits(<<"shell", "uiautomator", "dump", "/dev/tty">>)
FileDumpArgs == Lits(<<"shell", "uiautomator", "dump">>) \o <<ViewXmlPath>>
CatArgs == Lits(<<"shell", "cat">>) \o <<ViewXmlPath>>

\* lines 95-99: the invocations made, given what each would answer; an
\* exception of run_adb ends the sequence
Retrieval(device_serial, o1, o2, o3) ==
    LET c1 == RunAdb(TtyDumpArgs, device_serial, o1)
        c2 == RunAdb(FileDumpArgs, device_serial, o2)
        c3 == RunAdb(CatArgs, device_serial, o3)
    IN  IF c1.raised \/ ~NeedsFallback(c1.out) THEN <<c1>>
        ELSE IF c2.raised THEN <<c1, c2>>
        ELSE <<c1, c2, c3>>

get_uilayout ==
    \E device_serial \in Serials, o1 \in Outcomes(SrvTexts),
       o2 \in Outcomes({<<MarkerFile>>}), o3 \in Outcomes(SrvTexts) :
        LET cs == Retrieval(device_serial, o1, o2, o3)
            xml == cs[Len(cs)].out
        IN  /\ op = "none"
            /\ op' = "get_uilayout"
            /\ serial' = device_serial
            /\ calls' = cs
            /\ ret' = Result(cs, LayoutReport(xml))
            /\ UNCHANGED <<ext_vars, ctr_vars, race_vars>>

Coords == {0, 540}

touch ==
    \E x \in Coords, y \in Coords, device_serial \in Serials, o \in PlainOutcomes :
        LET c == RunAdb(Lits(<<"shell", "input", "tap">>) \o <<Dec(x), Dec(y)>>,
                        device_serial, o)
        IN  /\ op = "none"
            /\ op' = "touch"
            /\ serial' = device_serial
            /\ calls' = <<c>>
            /\ ret' = Result(<<c>>, <<"Touch at (">> \o Dec(x) \o <<", ">>
                                    \o Dec(y) \o <<")">>)
            /\ UNCHANGED <<ext_vars, ctr_vars, race_vars>>

swipe ==
    \E x1 \in {0}, y1 \in Coords, x2 \in {0}, y2 \in Coords, duration_ms \in {500},
       device_serial \in Serials, o \in PlainOutcomes :
        LET c == RunAdb(Lits(<<"shell", "input", "swipe">>)
                        \o <<Dec(x1), Dec(y1), Dec(x2), Dec(y2), Dec(duration_ms)>>,
                        device_serial, o)
        IN  /\ op = "none"
            /\ op' = "swipe"
            /\ serial' = device_serial
            /\ calls' = <<c>>
            /\ ret' = Result(<<c>>, <<"Swipe from (">> \o Dec(x1) \o <<", ">>
                                    \o Dec(y1) \o <<") to (">> \o Dec(x2)
                                    \o <<", ">> \o Dec(y2) \o <<")">>)
            /\ UNCHANGED <<ext_vars, ctr_vars, race_vars>>

\* f"{package_name}/{activity}"
Component(package_name, activity) == package_name \o <<"/">> \o activity

launch_app ==
    \E package_name \in {<<"com.a">>}, activity \in {NoneStr, <<>>, <<".Main">>},
       device_serial \in Serials, o \in Outcomes({<<"Starting: Intent">>}) :
        LET args == IF Truthy(activity)
                    THEN Lits(<<"shell", "am", "start", "-n">>)
                         \o <<Component(package_name, activity)>>
                    ELSE Lits(<<"shell", "monkey", "-p">>) \o <<package_name>>
                         \o Lits(<<"-c", "android.intent.category.LAUNCHER", "1">>)
            c == RunAdb(args, device_serial, o)
        IN  /\ op = "none"
            /\ op' = "launch_app"
            /\ serial' = device_serial
            /\ calls' = <<c>>
            /\ ret' = Result(<<c>>, <<"Launched ">> \o package_name)
            /\ UNCHANGED <<ext_vars, ctr_vars, race_vars>>

stop_app ==
    \E package_name \in {<<"com.a">>, <<"com.b">>}, device_serial \in Serials,
       o \in PlainOutcomes :
        LET c == RunAdb(Lits(<<"shell", "am", "force-stop">>) \o <<package_name>>,
                        device_serial, o)
        IN  /\ op = "none"
            /\ op' = "stop_app"
            /\ serial' = device_serial
            /\ calls' = <<c>>
            /\ ret' = Result(<<c>>, <<"Stopped ">> \o package_name)
            /\ UNCHANGED <<ext_vars, ctr_vars, race_vars>>

\* text.replace(" ", "%s")
Escaped(text) == [k \in 1..Len(text) |-> IF text[k] = Space THEN "%s" ELSE text[k]]

input_text ==
    \E text \in {<<"hi">>, <<"hi", Space, "you">>, <<>>},
       device_serial \in Serials, o \in PlainOutcomes :
        LET c == RunAdb(Lits(<<"shell", "input", "text">>) \o <<Escaped(text)>>,
                        device_serial, o)
        IN  /\ op = "none"
            /\ op' = "input_text"
            /\ serial' = device_serial
            /\ calls' = <<c>>
            /\ ret' = Result(<<c>>, <<"Typed: ">> \o text)
            /\ UNCHANGED <<ext_vars, ctr_vars, race_vars>>

\* the response is delivered and the server waits for the next request
Respond ==
    /\ op # "none"
    /\ op' = "none" /\ serial' = <<>> /\ calls' = <<>> /\ ret' = <<>>
    /\ UNCHANGED <<ext_vars, ctr_vars, race_vars>>

(***************************************************************************)
(* The states the parts that are not followed rest in.                     *)
(***************************************************************************)
IdleSrv == op = "none" /\ serial = <<>> /\ calls = <<>> /\ ret = <<>>
IdleExt == pc = "idle" /\ raw = <<>> /\ xml_data = <<>>
           /\ parsed = Returned(<<>>) /\ report = <<>>
IdleCtr == bounds_groups = <<>> /\ center = None /\ center_done = FALSE
IdleRace == rpc = <<>> /\ files = <<>> /\ issued = <<>> /\ fetched = <<>>

(***************************************************************************)
(* The server: after construction no tool has run; then any tool may be    *)
(* invoked, one request at a time.                                         *)
(***************************************************************************)
Init == IdleSrv /\ IdleExt /\ IdleCtr /\ IdleRace

Next ==
    \/ get_packages
    \/ execute_adb_shell_command
    \/ take_screenshot
    \/ get_uilayout
    \/ touch
    \/ swipe
    \/ launch_app
    \/ stop_app
    \/ input_text
    \/ Respond

Spec == Init /\ [][Next]_vars

(***************************************************************************)
(* The centre computation on its own: lines 39-48 applied to a bounds      *)
(* attribute drawn from BoundsInputs.                                      *)
(***************************************************************************)
InitCenter ==
    /\ bounds_groups \in BoundsInputs
    /\ center = None
    /\ center_done = FALSE
    /\ IdleSrv /\ IdleExt /\ IdleRace

ComputeCenter ==
    /\ ~center_done
    /\ center' = CenterOf(Concat(bounds_groups))
    /\ center_done' = TRUE
    /\ UNCHANGED <<bounds_groups, srv_vars, ext_vars, race_vars>>

NextCenter == ComputeCenter

SpecCenter == InitCenter /\ [][NextCenter]_vars

(***************************************************************************)
(* The extraction pipeline on its own: lines 101-121 of get_uilayout       *)
(* applied to a retrieved text, and _parse_hierarchy called on it as is.   *)
(***************************************************************************)
ParseBodyChunks ==
    {NodeOpenTag[1], NodeSelfTag[1], NodeSelfTag[2], NodeSelfTag[3], NClose}

ParseHeads ==
    { <<HOpen>>,
      <<XmlOpen, PiClose, HOpen>>,
      <<Junk, Newline, XmlOpen, PiClose, HOpen>>,
      <<Newline, XmlOpen, Space, PiClose, Newline, HOpen>>,
      <<XmlOpen, HOpen>>,
      <<>> }

ParseTails ==
    { <<HClose>>,
      <<HClose, Marker>>,
      <<HClose, Junk, HClose>>,
      <<HClose, Newline>>,
      <<>> }

ParseInputs ==
    {h \o b \o t : h \in ParseHeads,
                   b \in SeqsUpTo(ParseBodyChunks, MaxBody),
                   t \in ParseTails}
    \cup {<<XmlOpen, HClose>>, <<XmlOpen, HClose, HClose>>}

InitParse ==
    /\ raw \in ParseInputs
    /\ xml_data = raw
    /\ pc = "search"
    /\ parsed = Returned(<<>>)
    /\ report = <<>>
    /\ IdleSrv /\ IdleCtr /\ IdleRace

\* lines 102-104
CleanStep ==
    /\ pc = "search"
    /\ xml_data' = CleanXml(xml_data)
    /\ pc' = "parse"
    /\ UNCHANGED <<raw, parsed, report, srv_vars, ctr_vars, race_vars>>

\* line 106
ParseStep ==
    /\ pc = "parse"
    /\ parsed' = ParseHierarchy(xml_data)
    /\ pc' = IF parsed'.raised THEN "raised" ELSE "report"
    /\ UNCHANGED <<raw, xml_data, report, srv_vars, ctr_vars, race_vars>>

\* lines 108-121
ReportStep ==
    /\ pc = "report"
    /\ report' = ReportOf(parsed.elements)
    /\ pc' = "done"
    /\ UNCHANGED <<raw, xml_data, parsed, srv_vars, ctr_vars, race_vars>>

\* _parse_hierarchy(raw), called directly
ParseDirect ==
    /\ pc = "search"
    /\ parsed' = ParseHierarchy(raw)
    /\ pc' = IF parsed'.raised THEN "raised" ELSE "parsed"
    /\ UNCHANGED <<raw, xml_data, report, srv_vars, ctr_vars, race_vars>>

NextParse == CleanStep \/ ParseStep \/ ReportStep \/ ParseDirect

SpecParse == InitParse /\ [][NextParse]_vars

(***************************************************************************)
(* The report loop on its own: lines 108-121 applied to a list of element  *)
(* records as _parse_hierarchy builds them (trimmed, centre computed).     *)
(***************************************************************************)
ElementRecords ==
    {[r EXCEPT !.center = CenterOf(r.bounds)] :
        r \in [text : {<<>>, <<"O", "K">>},
               content_desc : {<<>>, <<"d">>},
               resource_id : {<<>>, <<"id">>},
               class : {<<"Button">>},
               package : {<<"com.a">>},
               clickable : BOOLEAN,
               bounds : {IntPair(10, 20) \o IntPair(30, 40), IntPair(0, 3)},
               center : {None}]}

InitReport ==
    /\ parsed \in {Returned(els) : els \in SeqsUpTo(ElementRecords, MaxElems)}
    /\ pc = "report"
    /\ raw = <<>> /\ xml_data = <<>> /\ report = <<>>
    /\ IdleSrv /\ IdleCtr /\ IdleRace

NextReport == ReportStep

SpecReport == InitReport /\ [][NextReport]_vars

(***************************************************************************)
(* Two invocations at once on one device.  Two server processes attached   *)
(* to the same device each run take_screenshot (lines 87-89) or            *)
(* get_uilayout (lines 95-99) step by step; the device's files are shared. *)
(* A file's content is named by the process whose invocation wrote it, 0   *)
(* for a file that does not exist.                                         *)
(***************************************************************************)
Procs == {1, 2}

\* line 87 with a path of the invocation's own
UniqueRemotePath(p) == ScreenshotPath \o Dec(p)

\* line 87: the path take_screenshot captures to and pulls from
RemotePath(p) == ScreenshotPath

\* lines 98-99: the path get_uilayout dumps to and reads back
DumpPath(p) == ViewXmlPath

ContentOf(path) == IF path \in DOMAIN files THEN files[path] ELSE 0

Written(path, p) ==
    [q \in DOMAIN files \cup {path} |-> IF q = path THEN p ELSE files[q]]

Issue(p, tool, path) ==
    [issued EXCEPT ![p] = Append(@, [tool |-> tool, path |-> path])]

InitRace ==
    /\ rpc = [p \in Procs |-> "idle"]
    /\ files = <<>>
    /\ issued = [p \in Procs |-> <<>>]
    /\ fetched = [p \in Procs |-> [shot |-> 0, xml |-> 0]]
    /\ IdleSrv /\ IdleExt /\ IdleCtr

\* a take_screenshot request arrives at process p
StartScreenshot(p) ==
    /\ rpc[p] = "idle"
    /\ rpc' = [rpc EXCEPT ![p] = "capture"]
    /\ issued' = [issued EXCEPT ![p] = <<>>]
    /\ UNCHANGED <<files, fetched, srv_vars, ext_vars, ctr_vars>>

\* line 88
Capture(p) ==
    /\ rpc[p] = "capture"
    /\ files' = Written(RemotePath(p), p)
    /\ issued' = Issue(p, "screencap", RemotePath(p))
    /\ rpc' = [rpc EXCEPT ![p] = "pull"]
    /\ UNCHANGED <<fetched, srv_vars, ext_vars, ctr_vars>>

\* lines 89-90
Pull(p) ==
    /\ rpc[p] = "pull"
    /\ fetched' = [fetched EXCEPT ![p].shot = ContentOf(RemotePath(p))]
    /\ issued' = Issue(p, "pull", RemotePath(p))
    /\ rpc' = [rpc EXCEPT ![p] = "idle"]
    /\ UNCHANGED <<files, srv_vars, ext_vars, ctr_vars>>

\* a get_uilayout request arrives at process p
StartLayout(p) ==
    /\ rpc[p] = "idle"
    /\ rpc' = [rpc EXCEPT ![p] = "tty"]
    /\ issued' = [issued EXCEPT ![p] = <<>>]
    /\ UNCHANGED <<files, fetched, srv_vars, ext_vars, ctr_vars>>

\* lines 95-97: the device answers the tty dump with a document or not
TtyDump(p) ==
    /\ rpc[p] = "tty"
    /\ \E text \in {<<XmlOpen, PiClose, HOpen, HClose>>, <<Junk, Newline>>} :
          rpc' = [rpc EXCEPT ![p] = IF NeedsFallback(text) THEN "dump" ELSE "idle"]
    /\ issued' = Issue(p, "tty", <<"/dev/tty">>)
    /\ UNCHANGED <<files, fetched, srv_vars, ext_vars, ctr_vars>>

\* line 98
FileDump(p) ==
    /\ rpc[p] = "dump"
    /\ files' = Written(DumpPath(p), p)
    /\ issued' = Issue(p, "dump", DumpPath(p))
    /\ rpc' = [rpc EXCEPT ![p] = "cat"]
    /\ UNCHANGED <<fetched, srv_vars, ext_vars, ctr_vars>>

\* lines 99-121
Cat(p) ==
    /\ rpc[p] = "cat"
    /\ fetched' = [fetched EXCEPT ![p].xml = ContentOf(DumpPath(p))]
    /\ issued' = Issue(p, "cat", DumpPath(p))
    /\ rpc' = [rpc EXCEPT ![p] = "idle"]
    /\ UNCHANGED <<files, srv_vars, ext_vars, ctr_vars>>

NextRace ==
    \E p \in Procs :
        \/ StartScreenshot(p)
        \/ Capture(p)
        \/ Pull(p)
        \/ StartLayout(p)
        \/ TtyDump(p)
        \/ FileDump(p)
        \/ Cat(p)

SpecRace == InitRace /\ [][NextRace]_vars

(***************************************************************************)
(* Claims about the server (Spec).                                         *)
(***************************************************************************)
Failed == {k \in 1..Len(calls) : calls[k].kind # "ok"}

\* whether the string t occurs in the string s
Occurs(t, s) ==
    \E i \in 1..(Len(s) - Len(t) + 1) : SubSeq(s, i, i + Len(t) - 1) = t

\* the first output has neither the completion marker nor, once trimmed,
\* an XML declaration at its start
NeitherMarkerNorXml(text) ==
    /\ \A i \in 1..Len(text) : text[i] \notin {Marker, MarkerFile}
    /\ LStrip(text) = <<>> \/ LStrip(text)[1] # XmlOpen

\* C1: get_uilayout first runs the dump to /dev/tty.  If the output has
\* neither the completion marker nor a leading "<?xml" it runs the dump to
\* /sdcard/view.xml and then the cat of that file, three invocations in
\* all, and reports on the output of the cat; otherwise it runs nothing
\* more and reports on the first output.
C1_FallbackIffNeitherMarkerNorXml ==
    op = "get_uilayout" =>
        /\ calls[1].args = <<<<"shell">>, <<"uiautomator">>, <<"dump">>, <<"/dev/tty">>>>
        /\ NeitherMarkerNorXml(calls[1].out) =>
              /\ Len(calls) = 3
              /\ calls[2].args = <<<<"shell">>, <<"uiautomator">>, <<"dump">>,
                                   <<"/sdcard/view.xml">>>>
              /\ calls[3].args = <<<<"shell">>, <<"cat">>, <<"/sdcard/view.xml">>>>
              /\ ret = LayoutReport(calls[3].out)
        /\ ~NeitherMarkerNorXml(calls[1].out) =>
              /\ Len(calls) = 1
              /\ ret = LayoutReport(calls[1].out)

\* the tty dump answered with noise, and the report was made from the file
C1_Witness ==
    /\ op = "get_uilayout"
    /\ Len(calls) = 3
    /\ calls[1].kind = "ok" /\ calls[1].out = <<Junk, Newline>>
    /\ calls[3].kind = "ok"
    /\ ret # Sentinel

\* C3 as stated: when a retrieval step of get_uilayout fails, get_uilayout
\* returns the output text of a failed step.
C3_AsStated ==
    (op = "get_uilayout" /\ Failed # {}) => \E k \in Failed : ret = calls[k].out

\* C4 as stated: whatever the tool, the returned string holds the captured
\* error text of every invocation that failed, and no invocation is made
\* twice.
C4_AsStated ==
    op # "none" =>
        /\ \A k \in Failed : Occurs(calls[k].text, ret)
        /\ \A i, k \in 1..Len(calls) : i # k => calls[i].cmd # calls[k].cmd

\* C9: run_adb never raises; it returns the standard output when the
\* command exits with zero, "Error: " and the standard error when it exits
\* non-zero, a string that starts with "Unexpected Error: " otherwise; the
\* command line is adb, then -s and the serial exactly when a serial is
\* given, then the caller's arguments.
C9_RunAdbShapes ==
    \A k \in 1..Len(calls) :
        LET c == calls[k]
        IN  /\ ~c.raised
            /\ c.kind = "ok" => c.out = c.text
            /\ c.kind = "fail" => c.out = <<"Error: ">> \o c.text
            /\ c.kind = "exc" => (c.out # <<>> /\ c.out[1] = "Unexpected Error: ")
            /\ serial \notin {NoneStr, <<>>}
                   => c.cmd = <<<<"adb">>, <<"-s">>, serial>> \o c.args
            /\ serial \in {NoneStr, <<>>} => c.cmd = <<<<"adb">>>> \o c.args

\* adb could not be run for a request scoped to a device
C9_Witness ==
    /\ op = "touch"
    /\ serial = <<"emulator-5554">>
    /\ calls[1].kind = "exc"
    /\ calls[1].cmd[2] = <<"-s">>
    /\ calls[1].out = <<"Unexpected Error: ", "device offline">>

(***************************************************************************)
(* Claims about concurrent invocations (SpecRace).                         *)
(***************************************************************************)
\* C10: every take_screenshot captures to /sdcard/mcp_screenshot.png and
\* then pulls from that same path, and every get_uilayout fallback dumps to
\* /sdcard/view.xml and then reads that same path, whichever the
\* invocation; what a pull or cat transfers is whatever process wrote the
\* shared file last.  (That an interleaving exists in which an invocation
\* is handed the other one's file is the reachability of C10_Witness.)
C10_SharedFixedPaths ==
    \A p \in Procs :
        /\ \A k \in 1..Len(issued[p]) :
              LET c == issued[p][k]
              IN  /\ c.tool \in {"screencap", "pull"}
                        => c.path = <<"/sdcard/mcp_screenshot.png">>
                  /\ c.tool \in {"dump", "cat"} => c.path = <<"/sdcard/view.xml">>
                  /\ c.tool = "pull" => (k > 1 /\ issued[p][k - 1].tool = "screencap")
                  /\ c.tool = "cat" => (k > 1 /\ issued[p][k - 1].tool = "dump")
        /\ (rpc[p] = "idle" /\ issued[p] # <<>>
            /\ issued[p][Len(issued[p])].tool = "pull")
               => fetched[p].shot \in Procs
        /\ (rpc[p] = "idle" /\ issued[p] # <<>>
            /\ issued[p][Len(issued[p])].tool = "cat")
               => fetched[p].xml \in Procs

\* one process's pull transferred the image the other one captured, and a
\* cat read the dump the other process wrote
C10_Witness ==
    /\ \E p \in Procs : fetched[p].shot \in Procs \ {p}
    /\ \E p \in Procs : fetched[p].xml \in Procs \ {p}

(***************************************************************************)
(* Claims about the centre computation (SpecCenter).                       *)
(***************************************************************************)
\* the groups of the drawn attribute that are in the set G, in order
GroupsIn(G) == LET InG(g) == g \in G IN SelectSeq(bounds_groups, InG)

\* the integers an integer pair was written from
PairXY(g) == CHOOSE xy \in CoordXs \X CoordYs : IntPair(xy[1], xy[2]) = g

MidpointOfPairs(g1, g2) ==
    << (PairXY(g1)[1] + PairXY(g2)[1]) \div 2,
       (PairXY(g1)[2] + PairXY(g2)[2]) \div 2 >>

\* C5 as stated: a bounds string that is exactly two bracket pairs of
\* integers gets the floor midpoint as its centre, and a bounds string with
\* zero, one or more than two bracket pairs, or with non-integer content in
\* some bracket pair, gets no centre.
C5_AsStated ==
    center_done =>
        /\ (Len(bounds_groups) = 2 /\ Len(GroupsIn(IntPairGroups)) = 2)
               => center = MidpointOfPairs(bounds_groups[1], bounds_groups[2])
        /\ (Len(GroupsIn(BracketPairGroups)) # 2 \/ GroupsIn(NonIntGroups) # <<>>)
               => center = None

\* C5, amended: the centre is the floor midpoint of the two corners exactly
\* when the bounds string holds exactly two occurrences of [digits,digits];
\* whatever else the string holds (blanks, a stray bracket, bracket pairs
\* with negative or non-integer content) is skipped and does not count.  In
\* every other case the centre is absent.
C5_CenterOfTwoDigitPairs ==
    center_done =>
        center = IF Len(GroupsIn(IntPairGroups)) = 2
                 THEN MidpointOfPairs(GroupsIn(IntPairGroups)[1],
                                      GroupsIn(IntPairGroups)[2])
                 ELSE None

\* a centre was computed, rounded down, for a string that also holds a
\* bracket pair with non-integer content
C5_Witness ==
    /\ center_done
    /\ GroupsIn(NonIntGroups) # <<>>
    /\ GroupsIn(IntPairGroups) = <<IntPair(0, 3), IntPair(7, 10)>>
    /\ center = <<3, 6>>

(***************************************************************************)
(* Claims about the extraction pipeline (SpecParse).                       *)
(***************************************************************************)
Cleaned == pc \in {"parse", "report", "done"}

Indices(s, P) == {i \in 1..Len(s) : s[i] \in P}

\* C2 as stated: the text parsed is the greedy span of the retrieved text,
\* from the first "<?xml" to the last "</hierarchy>" after it, and the
\* retrieved text itself when there is no such span.
C2_AsStated ==
    Cleaned =>
        LET starts == Indices(raw, {XmlOpen})
            first == Min(starts)
            ends == IF starts = {} THEN {}
                    ELSE {r \in Indices(raw, {HClose}) : r > first}
        IN  xml_data = IF ends = {} THEN raw
                       ELSE SubSeq(raw, first, CHOOSE r \in ends : \A k \in ends : k <= r)

\* the closing tags that can end a match that starts at index i: a '>'
\* lies between the declaration's start and the closing tag
EndsAfter(s, i) ==
    {r \in Indices(s, {HClose}) : \E q \in Indices(s, GtChunks) : i < q /\ q < r}

\* C2, amended: the text parsed is the lazy span of the retrieved text, from
\* the first "<?xml" to the first "</hierarchy>" that starts after the first
\* '>' following that "<?xml" (so a later "</hierarchy>" is cut off), and the
\* retrieved text itself when there is no such span.
C2_LazySpan ==
    Cleaned =>
        LET starts == Indices(raw, {XmlOpen})
            ends == IF starts = {} THEN {} ELSE EndsAfter(raw, Min(starts))
        IN  xml_data = IF ends = {} THEN raw
                       ELSE SubSeq(raw, Min(starts), Min(ends))

\* a text with noise, a declaration and two closing tags was cut at the
\* first closing tag
C2_Witness ==
    /\ pc = "parse"
    /\ raw # <<>> /\ xml_data # <<>>
    /\ raw[1] = Junk
    /\ Cardinality(Indices(raw, {HClose})) = 2
    /\ Cardinality(Indices(xml_data, {HClose})) = 1
    /\ xml_data[1] = XmlOpen
    /\ xml_data[Len(xml_data)] = HClose

\* the text _parse_hierarchy was given
ParseInput == IF pc = "parsed" THEN raw ELSE xml_data
AfterParse == pc \in {"parsed", "report", "done", "raised"}

\* C6: for a text that is not well-formed XML _parse_hierarchy returns the
\* empty list and raises nothing, and get_uilayout then returns a string
\* (the sentinel); no run of the pipeline ends in an exception.
C6_MalformedYieldsEmptyList ==
    /\ pc # "raised"
    /\ (AfterParse /\ ~fromstring(ParseInput).ok) => parsed = Returned(<<>>)
    /\ (pc = "done" /\ ~fromstring(xml_data).ok) => report = Sentinel
    /\ pc = "done" => (report # <<>> /\ report \in Seq(STRING))

\* a text with node tags that is not well-formed went through the pipeline
C6_Witness ==
    /\ pc = "done"
    /\ ~fromstring(xml_data).ok
    /\ Contains(xml_data, NodeTags)
    /\ parsed = Returned(<<>>)
    /\ report = Sentinel

\* the node start tags of a text, in the order they are written
NodeStartTags(s) == LET IsNodeTag(c) == c \in NodeTags IN SelectSeq(s, IsNodeTag)

\* the document element of a text is a hierarchy element
HierarchyRooted(s) ==
    LET tags == Indices(s, OpenTags \cup NodeSelfTags)
    IN  tags # {} /\ s[Min(tags)] = HOpen

\* C8: for a well-formed document whose root is a hierarchy element and
\* that holds N node elements at any depth, _parse_hierarchy returns N
\* records, the k-th being the record of the k-th node start tag of the text.
C8_OneRecordPerNodeInOrder ==
    (AfterParse /\ fromstring(ParseInput).ok /\ HierarchyRooted(ParseInput)) =>
        LET tags == NodeStartTags(ParseInput)
        IN  /\ ~parsed.raised
            /\ Len(parsed.elements) = Len(tags)
            /\ \A k \in 1..Len(tags) :
                   parsed.elements[k] = ElementOf(AttrsOf(tags[k]))

\* a document with a node nested in a node, followed by a sibling, parsed
C8_Witness ==
    /\ pc = "parsed"
    /\ fromstring(raw).ok
    /\ HierarchyRooted(raw)
    /\ NodeStartTags(raw) = <<NodeOpenTag[1], NodeSelfTag[3]>>
    /\ Len(parsed.elements) = 2
    /\ parsed.elements[2].resource_id = <<"id">>

(***************************************************************************)
(* Claims about the report loop (SpecReport).                              *)
(***************************************************************************)
\* at least one of the three identifying fields is non-empty
Qualifies(el) ==
    ~(el.text = <<>> /\ el.content_desc = <<>> /\ el.resource_id = <<>>)

\* C7: the report holds one block per record that has a non-empty text,
\* content-desc or resource-id, whatever its clickable value, and none for
\* the others; the blocks are in extraction order; the report is the
\* sentinel exactly when no record qualifies.
C7_ReportHoldsExactlyTheQualifying ==
    pc = "done" =>
        LET kept == SelectSeq(parsed.elements, Qualifies)
            blocks == SplitOn(report, "\n\n")
        IN  /\ (report = Sentinel) <=> (kept = <<>>)
            /\ kept # <<>> =>
                  /\ Len(blocks) = Len(kept)
                  /\ \A k \in 1..Len(kept) : blocks[k] = Block(kept[k])

\* a clickable record with nothing to show was left out of a report that
\* holds the record after it
C7_Witness ==
    /\ pc = "done"
    /\ Len(parsed.elements) = 2
    /\ ~Qualifies(parsed.elements[1]) /\ parsed.elements[1].clickable
    /\ Qualifies(parsed.elements[2]) /\ ~parsed.elements[2].clickable
    /\ report = Block(parsed.elements[2])

====
